---------------------------- MODULE Spec2Model ----------------------------
(***************************************************************************)
(* A model of sacredParser: core.flatten_json and the FileStorageParser    *)
(* of parser.py (run discovery, config table, artifact registry, name      *)
(* resolution, selection, persistence).                                    *)
(*                                                                         *)
(* Strings are sequences of one-character strings, so that formatting,     *)
(* column-name normalisation and int() are computed character by           *)
(* character.  A JSON / Python value is a record [t, v]: t is its type     *)
(* tag and v its payload.  A dict is the sequence of its <<key, value>>    *)
(* items in insertion order, as Python keeps them.                         *)
(***************************************************************************)
EXTENDS Integers, Sequences, FiniteSets, TLC

VARIABLES
    pc,                 \* where the modelled session stands
    x, x_out, x_again,  \* flatten_json: argument, result, result of a second call
    fs,                 \* the base directory: entry name -> directory or file
    eids,               \* self.eids
    cfg_df,             \* self.cfg_df: run id -> column name -> value
    artifacts,          \* self.artifacts: artifact name -> run id -> value
    processed_dirname,  \* self.processed_dirname
    ret                 \* what the last call did: operation, arguments, outcome

vars == <<pc, x, x_out, x_again, fs, eids, cfg_df, artifacts, processed_dirname, ret>>

Range(s) == {s[i] : i \in DOMAIN s}

\* the value of a variable that is not in use
Idle == <<>>

---------------------------------------------------------------------------
(* Values *)

IntV(n)  == [t |-> "int",  v |-> n]
ListV(s) == [t |-> "list", v |-> s]
DictV(s) == [t |-> "dict", v |-> s]
None     == [t |-> "none", v |-> 0]
NaN      == [t |-> "nan",  v |-> 0]
Frame(n) == [t |-> "DataFrame", v |-> n]

DigitChars == <<"0", "1", "2", "3", "4", "5", "6", "7", "8", "9">>

\* str(n) for a non-negative integer
RECURSIVE NatToStr(_)
NatToStr(n) ==
    IF n < 10 THEN <<DigitChars[n + 1]>>
    ELSE NatToStr(n \div 10) \o <<DigitChars[(n % 10) + 1]>>

\* str(n) for an integer
IntToStr(n) == IF n < 0 THEN <<"-">> \o NatToStr(0 - n) ELSE NatToStr(n)

---------------------------------------------------------------------------
(* core.flatten_json *)

sep == <<"_", "_">>

\* "{}{}{}".format(k, sep, k_inner)
Format(k, k_inner) == k \o sep \o k_inner

DictKeys(d) == {d[i][1] : i \in DOMAIN d}

\* d[k] = v on a Python dict: an existing key keeps its place
DictSet(d, k, v) ==
    IF k \in DictKeys(d)
    THEN [i \in DOMAIN d |-> IF d[i][1] = k THEN <<k, v>> ELSE d[i]]
    ELSE Append(d, <<k, v>>)

\* del d[k]
DictDel(d, k) == SelectSeq(d, LAMBDA e : e[1] # k)

\* d[k] for a key the dict holds
DictGet(d, k) == (CHOOSE e \in Range(d) : e[1] = k)[2]

\* v.items() of a dict, enumerate(v) of a list: the (k_inner, v_inner) pairs
Children(v) ==
    IF v.t = "dict" THEN v.v
    ELSE [i \in DOMAIN v.v |-> <<NatToStr(i - 1), v.v[i]>>]

\* inner loops that build the new key from the child's key alone
RECURSIVE InsertChildren_NoPrefix(_, _, _, _)
InsertChildren_NoPrefix(out, k, ch, i) ==
    IF i > Len(ch) THEN out
    ELSE InsertChildren_NoPrefix(DictSet(out, ch[i][1], ch[i][2]), k, ch, i + 1)

\* the inner for loops: one assignment into x_out per child
RECURSIVE InsertChildren(_, _, _, _)
InsertChildren(out, k, ch, i) ==
    IF i > Len(ch) THEN out
    ELSE InsertChildren(DictSet(out, Format(k, ch[i][1]), ch[i][2]), k, ch, i + 1)

\* one pass of "for k, v in x.items()", from item i on
RECURSIVE FlattenPass(_, _, _, _)
FlattenPass(xx, out, done, i) ==
    IF i > Len(xx) THEN [out |-> out, done |-> done]
    ELSE LET k == xx[i][1]
             v == xx[i][2]
         IN IF v.t \in {"dict", "list"}
            THEN FlattenPass(xx, InsertChildren(DictDel(out, k), k, Children(v), 1),
                             FALSE, i + 1)
            ELSE FlattenPass(xx, out, done, i + 1)

\* a flatten_json whose loop stops after its first pass
FlattenLoop_OnePass(xx, out) == FlattenPass(xx, out, TRUE, 1).out

\* the while loop: x = x_out.copy() after every pass that expanded something
RECURSIVE FlattenLoop(_, _)
FlattenLoop(xx, out) ==
    LET r == FlattenPass(xx, out, TRUE, 1)
    IN IF r.done THEN r.out ELSE FlattenLoop(r.out, r.out)

flatten_json(xx) == FlattenLoop(xx, xx)

---------------------------------------------------------------------------
(* Strings of parser.py *)

s_eid == <<"e", "i", "d">>
s_config_json  == <<"c", "o", "n", "f", "i", "g", ".", "j", "s", "o", "n">>
s_metrics_json == <<"m", "e", "t", "r", "i", "c", "s", ".", "j", "s", "o", "n">>
s_run_json     == <<"r", "u", "n", ".", "j", "s", "o", "n">>
s_cout_txt     == <<"c", "o", "u", "t", ".", "t", "x", "t">>
ext_feather == <<".", "f", "e", "a", "t", "h", "e", "r">>
ext_json    == <<".", "j", "s", "o", "n">>
ext_pickle  == <<".", "p", "i", "c", "k", "l", "e">>
ext_pkl     == <<".", "p", "k", "l">>

LowerLetters == <<"a", "b", "c", "d", "e", "f", "g", "h", "i", "j", "k", "l", "m",
                  "n", "o", "p", "q", "r", "s", "t", "u", "v", "w", "x", "y", "z">>
UpperLetters == <<"A", "B", "C", "D", "E", "F", "G", "H", "I", "J", "K", "L", "M",
                  "N", "O", "P", "Q", "R", "S", "T", "U", "V", "W", "X", "Y", "Z">>

\* str.lower() on one character
Lower(c) ==
    IF c \in Range(UpperLetters)
    THEN LowerLetters[CHOOSE i \in DOMAIN UpperLetters : UpperLetters[i] = c]
    ELSE c

\* columns.str.lower().str.replace("[^a-z0-9]", "_") on one column name
Normalize(name) ==
    [i \in DOMAIN name |->
        IF Lower(name[i]) \in Range(LowerLetters) \cup Range(DigitChars)
        THEN Lower(name[i]) ELSE "_"]

\* os.path.splitext(f): <<stem, extension>>, split at the last dot that
\* follows a character other than a dot
SplitExt(f) ==
    LET dots == {i \in DOMAIN f : f[i] = "."}
        last == IF dots = {} THEN 0 ELSE CHOOSE i \in dots : \A j \in dots : j <= i
    IN IF last = 0 \/ (\A j \in 1..(last - 1) : f[j] = ".")
       THEN <<f, <<>>>>
       ELSE <<SubSeq(f, 1, last - 1), SubSeq(f, last, Len(f))>>

\* re.search("[0-9]+", f) is not None
HasDigits(f) == \E i \in DOMAIN f : f[i] \in Range(DigitChars)

DigitValue(c) == (CHOOSE i \in DOMAIN DigitChars : DigitChars[i] = c) - 1

RECURSIVE DigitsValue(_, _)
DigitsValue(body, acc) ==
    IF body = <<>> THEN acc
    ELSE IF Head(body) = "_" THEN DigitsValue(Tail(body), acc)
    ELSE DigitsValue(Tail(body), 10 * acc + DigitValue(Head(body)))

\* int(f) on a str: an optional sign, then decimal digits, single underscores
\* allowed between digits; anything else raises ValueError
ParseInt(f) ==
    LET signed == f # <<>> /\ Head(f) \in {"+", "-"}
        body   == IF signed THEN Tail(f) ELSE f
        wellFormed ==
            /\ body # <<>>
            /\ \A i \in DOMAIN body : body[i] \in Range(DigitChars) \cup {"_"}
            /\ body[1] # "_" /\ body[Len(body)] # "_"
            /\ \A i \in 1..(Len(body) - 1) : ~(body[i] = "_" /\ body[i + 1] = "_")
    IN IF ~wellFormed THEN [ok |-> FALSE, val |-> 0]
       ELSE [ok |-> TRUE,
             val |-> IF signed /\ Head(f) = "-"
                     THEN 0 - DigitsValue(body, 0) ELSE DigitsValue(body, 0)]

---------------------------------------------------------------------------
(* The file system under basedir.  A node is [is |-> "file", of |-> its     *)
(* decoded content] or [is |-> "dir", of |-> entry name -> node].           *)

File(data)   == [is |-> "file", of |-> data]
Dir(entries) == [is |-> "dir", of |-> entries]
Missing      == [is |-> "missing", of |-> 0]
NoEntries    == <<>>

\* the node a path (a sequence of entry names) leads to, from the directory
\* entries `root`
RECURSIVE Lookup(_, _)
Lookup(root, path) ==
    IF path = <<>> THEN Dir(root)
    ELSE IF Head(path) \notin DOMAIN root THEN Missing
    ELSE IF Len(path) = 1 THEN root[Head(path)]
    ELSE IF root[Head(path)].is # "dir" THEN Missing
    ELSE Lookup(root[Head(path)].of, Tail(path))

\* os.path.isdir / os.path.isfile / os.listdir
IsDir(root, path)  == Lookup(root, path).is = "dir"
IsFile(root, path) == Lookup(root, path).is = "file"
ListDir(root, path) == DOMAIN Lookup(root, path).of

NoDirname == <<>>

\* FileStorageParser._eid_dir, as a path below basedir
EidDir(pd, eid, dirname) ==
    LET root == <<IntToStr(eid)>>
    IN IF dirname # NoDirname THEN Append(root, dirname)
       ELSE IF pd # NoDirname THEN Append(root, pd)
       ELSE root

---------------------------------------------------------------------------
(* FileStorageParser.__init__ *)

\* the names the list comprehension of __init__ keeps
RunDirNames(root) ==
    {f \in DOMAIN root : IsDir(root, <<f>>) /\ HasDigits(f)}

\* a sorted list of the integers the names parse to, one per name
RECURSIVE SortedInts(_)
SortedInts(names) ==
    IF names = {} THEN <<>>
    ELSE LET least == CHOOSE n \in names :
                          \A o \in names : ParseInt(n).val <= ParseInt(o).val
         IN <<ParseInt(least).val>> \o SortedInts(names \ {least})

\* self.eids, or the exception the first statements of __init__ raise
DiscoverEids(root) ==
    LET names == RunDirNames(root)
    IN IF \E f \in names : ~ParseInt(f).ok
       THEN [outcome |-> "ValueError", eids |-> <<>>]
       ELSE IF names = {}
       THEN [outcome |-> "AssertionError", eids |-> <<>>]
       ELSE [outcome |-> "ok", eids |-> SortedInts(names)]

\* what _config_df does for one run: its flattened config with cfg["eid"] set,
\* or the exception raised
RunConfig(root, pd, eid) ==
    LET path == Append(EidDir(pd, eid, NoDirname), s_config_json)
        cfg  == Lookup(root, path).of.v
    IN IF ~IsFile(root, path)
       THEN [outcome |-> "FileNotFoundError", cfg |-> <<>>]
       ELSE IF pd = NoDirname /\ s_eid \in DictKeys(cfg)
       THEN [outcome |-> "AssertionError", cfg |-> <<>>]
       ELSE [outcome |-> "ok", cfg |-> DictSet(flatten_json(cfg), s_eid, IntV(eid))]

\* FileStorageParser._config_df: the table DataFrame(cfgs).set_index("eid")
\* with its column names normalised; a run without a key holds NaN there
ConfigDf(root, pd, ee) ==
    LET cfgOf(e) == RunConfig(root, pd, e)
        failed   == {i \in DOMAIN ee : cfgOf(ee[i]).outcome # "ok"}
        rawKeys(e) == DictKeys(cfgOf(e).cfg) \ {s_eid}
        columns  == {Normalize(k) : k \in UNION {rawKeys(e) : e \in Range(ee)}}
        cell(e, c) ==
            IF \E k \in rawKeys(e) : Normalize(k) = c
            THEN DictGet(cfgOf(e).cfg, CHOOSE k \in rawKeys(e) : Normalize(k) = c)
            ELSE NaN
    IN IF failed # {}
       THEN [outcome |-> cfgOf(ee[CHOOSE i \in failed : \A j \in failed : i <= j]).outcome,
             df |-> <<>>]
       ELSE [outcome |-> "ok",
             df |-> [e \in Range(ee) |-> [c \in columns |-> cell(e, c)]]]

ReservedFilenames == {s_config_json, s_metrics_json, s_run_json, s_cout_txt}

\* artifact_filenames of _artifacts
ArtifactFilenames(root, pd, ee) ==
    {f \in UNION {ListDir(root, EidDir(pd, e, NoDirname)) : e \in Range(ee)} :
        /\ \E e \in Range(ee) : IsFile(root, Append(EidDir(pd, e, NoDirname), f))
        /\ f \notin ReservedFilenames}

\* FileStorageParser._load_file
LoadFile(root, pd, eid, filename) ==
    LET ext  == SplitExt(filename)[2]
        path == Append(EidDir(pd, eid, NoDirname), filename)
    IN IF ~IsFile(root, path) THEN [outcome |-> "ok", value |-> None]
       ELSE IF ext \in {ext_feather, ext_json, ext_pickle, ext_pkl}
       THEN [outcome |-> "ok", value |-> Lookup(root, path).of]
       ELSE [outcome |-> "NotImplementedError", value |-> None]

\* the ways the dict comprehension of _artifacts can end: when several file
\* names share a stem they assign the same key, and the one the set yields
\* last stays
ArtifactChoices(root, pd, ee) ==
    LET names == ArtifactFilenames(root, pd, ee)
        stems == {SplitExt(f)[1] : f \in names}
    IN {pick \in [stems -> names] : \A st \in stems : SplitExt(pick[st])[1] = st}

\* FileStorageParser._artifacts, for one such choice
Artifacts(root, pd, ee, pick) ==
    LET names == ArtifactFilenames(root, pd, ee)
    IN IF \E f \in names, e \in Range(ee) : LoadFile(root, pd, e, f).outcome # "ok"
       THEN [outcome |-> "NotImplementedError", artifacts |-> <<>>]
       ELSE [outcome |-> "ok",
             artifacts |-> [st \in DOMAIN pick |->
                              [e \in Range(ee) |-> LoadFile(root, pd, e, pick[st]).value]]]

\* FileStorageParser.__init__(basedir, processed_dirname): the parser built,
\* or the exception raised and the statement of __init__ that raised it
NewParser(root, pd, pick) ==
    LET found == DiscoverEids(root)
        table == ConfigDf(root, pd, found.eids)
        arts  == Artifacts(root, pd, found.eids, pick)
        failure(exc, at) ==
            [outcome |-> exc, at |-> at, eids |-> <<>>, cfg_df |-> <<>>, artifacts |-> <<>>]
    IN IF found.outcome # "ok" THEN failure(found.outcome, "self.eids")
       ELSE IF table.outcome # "ok" THEN failure(table.outcome, "_config_df")
       ELSE IF arts.outcome # "ok" THEN failure(arts.outcome, "_artifacts")
       ELSE [outcome |-> "ok", at |-> "", eids |-> found.eids, cfg_df |-> table.df,
             artifacts |-> arts.artifacts]

\* the choices open to __init__ on this tree; one, picking nothing, when it
\* fails before _artifacts
InitChoices(root, pd) ==
    LET found == DiscoverEids(root)
    IN IF found.outcome = "ok" /\ ConfigDf(root, pd, found.eids).outcome = "ok"
       THEN ArtifactChoices(root, pd, found.eids)
       ELSE {<<>>}

NoCall == [op |-> "none"]

\* parser = FileStorageParser(basedir)
Construct ==
    /\ pc = "start"
    /\ \E pick \in InitChoices(fs, NoDirname) :
          LET new == NewParser(fs, NoDirname, pick)
          IN /\ ret' = [op |-> "__init__", outcome |-> new.outcome, at |-> new.at]
             /\ pc' = IF new.outcome = "ok" THEN "ready" ELSE "failed"
             /\ eids' = new.eids
             /\ cfg_df' = new.cfg_df
             /\ artifacts' = new.artifacts
             /\ processed_dirname' = NoDirname
    /\ UNCHANGED <<x, x_out, x_again, fs>>

---------------------------------------------------------------------------
(* The operations of a constructed FileStorageParser *)

s_lr  == <<"l", "r">>
s_m   == <<"m">>

\* cfg_df.columns
Columns(df) == DOMAIN df[CHOOSE e \in DOMAIN df : TRUE]

\* FileStorageParser._argnames; only membership in it is ever used
ArgNamesKnown == {s_eid} \cup Columns(cfg_df) \cup DOMAIN artifacts

\* a _kwargs that looks a name up among the artifacts before the columns,
\* and resolves "eid" last
Kwargs_ArtifactsFirst(argnames, eid) ==
    [arg \in {a \in Range(argnames) : a \in ArgNamesKnown} |->
        IF arg \in DOMAIN artifacts THEN artifacts[arg][eid]
        ELSE IF arg \in Columns(cfg_df) THEN cfg_df[eid][arg]
        ELSE IntV(eid)]

\* FileStorageParser._kwargs: the dict built for one run
Kwargs(argnames, eid) ==
    [arg \in {a \in Range(argnames) : a \in ArgNamesKnown} |->
        IF arg = s_eid THEN IntV(eid)
        ELSE IF arg \in Columns(cfg_df) THEN cfg_df[eid][arg]
        ELSE IF arg \in DOMAIN artifacts THEN artifacts[arg][eid]
        ELSE None]

\* The callbacks handed to add_artifact and add_cfg_col.  args is
\* inspect.getfullargspec(f)[0]; none of them has a default value.
f_one  == [args |-> <<>>,      body |-> "return 1"]
f_none == [args |-> <<>>,      body |-> "return None"]
f_eid  == [args |-> <<s_eid>>, body |-> "return eid"]
f_eids == [args |-> <<s_eid>>, body |-> "return [eid]"]
f_lr   == [args |-> <<s_lr>>,  body |-> "return [int(lr)]"]

\* f(**kw): Python raises TypeError when a parameter of f gets no value;
\* int(v) raises ValueError for NaN and TypeError for None, a list or a frame
CallF(f, kw) ==
    IF \E a \in Range(f.args) : a \notin DOMAIN kw
    THEN [outcome |-> "TypeError", value |-> None]
    ELSE IF f.body = "return [int(lr)]" /\ kw[s_lr].t # "int"
    THEN [outcome |-> IF kw[s_lr].t = "nan" THEN "ValueError" ELSE "TypeError",
          value |-> None]
    ELSE [outcome |-> "ok",
          value |-> CASE f.body = "return 1"         -> IntV(1)
                      [] f.body = "return None"      -> None
                      [] f.body = "return eid"       -> kw[s_eid]
                      [] f.body = "return [eid]"     -> ListV(<<kw[s_eid]>>)
                      [] f.body = "return [int(lr)]" -> ListV(<<kw[s_lr]>>)]

\* {eid: f(**self._kwargs(argnames, eid)) for eid in self.eids}: the values, and
\* how many times f was called; the first call that raises ends the loop
CallAlongEids(f) ==
    LET res(e) == CallF(f, Kwargs(f.args, e))
        bad    == {i \in DOMAIN eids : res(eids[i]).outcome # "ok"}
        first  == CHOOSE i \in bad : \A j \in bad : i <= j
    IN IF bad # {}
       THEN [outcome |-> res(eids[first]).outcome, calls |-> first, values |-> <<>>]
       ELSE [outcome |-> "ok", calls |-> Len(eids),
             values |-> [e \in Range(eids) |-> res(e).value]]

WithArtifact(name, values) ==
    [n \in DOMAIN artifacts \cup {name} |-> IF n = name THEN values ELSE artifacts[n]]

WithColumn(name, values) ==
    [e \in DOMAIN cfg_df |->
        [c \in Columns(cfg_df) \cup {name} |-> IF c = name THEN values[e] ELSE cfg_df[e][c]]]

AddRaised(exc) == [outcome |-> exc, calls |-> 0, cfg_df |-> cfg_df, artifacts |-> artifacts]

\* an add_artifact without its check against the config columns
add_artifact_Unchecked(name, f) ==
    LET r == CallAlongEids(f)
    IN IF name = s_eid THEN AddRaised("Exception")
       ELSE IF r.outcome # "ok" THEN [AddRaised(r.outcome) EXCEPT !.calls = r.calls]
       ELSE [outcome |-> "ok", calls |-> r.calls, cfg_df |-> cfg_df,
             artifacts |-> WithArtifact(name, r.values)]

\* FileStorageParser.add_artifact
add_artifact(name, f) ==
    LET r == CallAlongEids(f)
    IN IF name = s_eid THEN AddRaised("Exception")
       ELSE IF name \in Columns(cfg_df) THEN AddRaised("Exception")
       ELSE IF r.outcome # "ok" THEN [AddRaised(r.outcome) EXCEPT !.calls = r.calls]
       ELSE [outcome |-> "ok", calls |-> r.calls, cfg_df |-> cfg_df,
             artifacts |-> WithArtifact(name, r.values)]

\* FileStorageParser.add_cfg_col; overwriting a column only warns
add_cfg_col(name, f) ==
    LET r == CallAlongEids(f)
    IN IF name = s_eid THEN AddRaised("Exception")
       ELSE IF name \in DOMAIN artifacts THEN AddRaised("Exception")
       ELSE IF r.outcome # "ok" THEN [AddRaised(r.outcome) EXCEPT !.calls = r.calls]
       ELSE [outcome |-> "ok", calls |-> r.calls, cfg_df |-> WithColumn(name, r.values),
             artifacts |-> artifacts]

\* the == of a pandas column with a value: NaN equals nothing
CellEquals(a, b) == a.t # "nan" /\ b.t # "nan" /\ a = b

\* FileStorageParser.eid_match(**criteria): the outcomes open to it.  With
\* criteria, ix is a boolean Series and the result the matching part of the
\* index.  Without, ix stays the scalar True, and index[True] is numpy's
\* data[True], a 2-d array of one row, or, in a pandas that refuses
\* multi-dimensional indexing, a ValueError.
eid_match(criteria) ==
    IF \E k \in DOMAIN criteria : k \notin Columns(cfg_df)
    THEN {[outcome |-> "KeyError", value |-> None]}
    ELSE IF DOMAIN criteria = {}
    THEN {[outcome |-> "ok", value |-> [t |-> "ndarray", v |-> <<eids>>]],
          [outcome |-> "ValueError", value |-> None]}
    ELSE {[outcome |-> "ok",
           value |-> [t |-> "Index",
                      v |-> SelectSeq(eids, LAMBDA e :
                              \A k \in DOMAIN criteria :
                                  CellEquals(cfg_df[e][k], criteria[k]))]]}

MaxArgs == 2

AddNames == {s_eid, s_lr, s_m}
ArtifactFuncs == {f_eids, f_lr, f_none}
ColumnFuncs == {f_one, f_eid}
ArgNames == {s_eid, s_lr, s_m}
ArgLists == UNION {[1..n -> ArgNames] : n \in 0..MaxArgs}
CriteriaColumns == {s_lr, s_m}
CriteriaValues == {IntV(1), IntV(2)}
Criteria == UNION {[cols -> CriteriaValues] : cols \in SUBSET CriteriaColumns}

\* parser.add_artifact(name, f).  An exception that a call raises reaches the
\* caller, which handles none: the session ends there.
AddArtifact ==
    /\ pc = "ready"
    /\ \E name \in AddNames, f \in ArtifactFuncs :
          LET r == add_artifact(name, f)
          IN /\ ret' = [op |-> "add_artifact", name |-> name, f |-> f,
                        outcome |-> r.outcome, calls |-> r.calls]
             /\ artifacts' = r.artifacts
             /\ cfg_df' = r.cfg_df
             /\ pc' = IF r.outcome = "ok" THEN "ready" ELSE "raised"
    /\ UNCHANGED <<x, x_out, x_again, fs, eids, processed_dirname>>

\* parser.add_cfg_col(name, f)
AddCfgCol ==
    /\ pc = "ready"
    /\ \E name \in AddNames, f \in ColumnFuncs :
          LET r == add_cfg_col(name, f)
          IN /\ ret' = [op |-> "add_cfg_col", name |-> name, f |-> f,
                        outcome |-> r.outcome, calls |-> r.calls]
             /\ artifacts' = r.artifacts
             /\ cfg_df' = r.cfg_df
             /\ pc' = IF r.outcome = "ok" THEN "ready" ELSE "raised"
    /\ UNCHANGED <<x, x_out, x_again, fs, eids, processed_dirname>>

\* parser._kwargs(argnames, eid).  It and eid_match leave the parser as they
\* found it, so a session is followed up to its first query: the calls that
\* change the parser are explored from every state a query can be made in.
ResolveKwargs ==
    /\ pc = "ready"
    /\ \E argnames \in ArgLists, e \in Range(eids) :
          ret' = [op |-> "_kwargs", argnames |-> argnames, eid |-> e,
                  value |-> Kwargs(argnames, e)]
    /\ pc' = "answered"
    /\ UNCHANGED <<x, x_out, x_again, fs, eids, cfg_df, artifacts, processed_dirname>>

\* parser.eid_match(**criteria)
EidMatch ==
    /\ pc = "ready"
    /\ \E criteria \in Criteria : \E r \in eid_match(criteria) :
          ret' = [op |-> "eid_match", criteria |-> criteria,
                  outcome |-> r.outcome, value |-> r.value]
    /\ pc' = "answered"
    /\ UNCHANGED <<x, x_out, x_again, fs, eids, cfg_df, artifacts, processed_dirname>>

---------------------------------------------------------------------------
(* Run trees.  Every run directory sacred writes holds config.json,        *)
(* cout.txt, metrics.json and run.json; artifacts lie beside them.          *)

MaxRuns == 2

s_Opt == <<"O", "p", "t">>
s_B   == <<"B">>
s_EID == <<"E", "I", "D">>

f_m_json  == s_m \o ext_json
f_m_pkl   == s_m \o ext_pkl
f_lr_json == s_lr \o ext_json

Entries(pairs) == [n \in {p[1] : p \in pairs} |-> (CHOOSE p \in pairs : p[1] = n)[2]]

\* a run directory holding this config and these further entries
RunDir(cfg, more) ==
    Dir(Entries({<<s_config_json, File(DictV(cfg))>>,
                 <<s_cout_txt, File(None)>>,
                 <<s_metrics_json, File(DictV(<<>>))>>,
                 <<s_run_json, File(DictV(<<>>))>>} \cup more))

RunDirs ==
    { RunDir(<<<<s_lr, IntV(1)>>>>, {}),
      RunDir(<<<<s_lr, IntV(2)>>, <<s_Opt, DictV(<<<<s_B, IntV(1)>>>>)>>>>,
             {<<f_m_json, File(ListV(<<IntV(1)>>))>>}),
      RunDir(<<<<s_lr, IntV(1)>>>>, {<<f_lr_json, File(ListV(<<IntV(2)>>))>>}),
      RunDir(<<<<s_EID, IntV(1)>>>>, {<<f_m_pkl, File(Frame(1))>>}),
      RunDir(<<<<s_eid, IntV(1)>>, <<s_lr, IntV(1)>>>>, {}) }

\* basedir holds the runs 0 .. n-1
RunTrees ==
    UNION {{[name \in {IntToStr(i) : i \in 0..(n - 1)} |-> dirs[ParseInt(name).val]]
              : dirs \in [0..(n - 1) -> RunDirs]}
           : n \in 1..MaxRuns}

NoParser ==
    /\ eids = <<>> /\ cfg_df = <<>> /\ artifacts = <<>>
    /\ processed_dirname = NoDirname /\ ret = NoCall

Init ==
    /\ pc = "start"
    /\ fs \in RunTrees
    /\ NoParser
    /\ x = Idle /\ x_out = Idle /\ x_again = Idle

Next == Construct \/ AddArtifact \/ AddCfgCol \/ ResolveKwargs \/ EidMatch

Spec == Init /\ [][Next]_vars

---------------------------------------------------------------------------
(* Construction alone, on base directories whose entries have the names a  *)
(* user's file system can hold beside the runs.                            *)

s_p     == <<"p">>
s_notes_txt == <<"n", "o", "t", "e", "s", ".", "t", "x", "t">>

ConstructDirs ==
    RunDirs \cup
    { Dir(NoEntries),
      RunDir(<<<<s_lr, IntV(1)>>>>, {<<s_notes_txt, File(None)>>}),
      RunDir(<<<<s_lr, IntV(2)>>>>,
             {<<f_m_json, File(ListV(<<IntV(2)>>))>>, <<s_p, Dir(NoEntries)>>}) }

PlainDir == RunDir(<<<<s_lr, IntV(1)>>>>, {})

\* the entries basedir may hold, each with the nodes it may be
BaseEntries ==
    [ name \in { <<"0">>, <<"1">>, <<"5">>, <<"0", "1">>, <<"-", "1">>,
                 <<"r", "u", "n", "2">>, <<"_", "s", "o", "u", "r", "c", "e", "s">>,
                 <<"7", ".", "t", "x", "t">> } |->
        IF name \in {<<"0">>, <<"1">>} THEN ConstructDirs
        ELSE IF name = <<"7", ".", "t", "x", "t">> THEN {File(None)}
        ELSE IF name = <<"_", "s", "o", "u", "r", "c", "e", "s">> THEN {Dir(NoEntries)}
        ELSE {PlainDir} ]

\* every base directory holding some of these entries
RECURSIVE BaseDirsOver(_)
BaseDirsOver(names) ==
    IF names = {} THEN {NoEntries}
    ELSE LET n == CHOOSE m \in names : TRUE
             rest == BaseDirsOver(names \ {n})
         IN rest \cup {[m \in DOMAIN root \cup {n} |-> IF m = n THEN node ELSE root[m]]
                          : root \in rest, node \in BaseEntries[n]}

InitConstruct ==
    /\ pc = "start"
    /\ fs \in BaseDirsOver(DOMAIN BaseEntries)
    /\ NoParser
    /\ x = Idle /\ x_out = Idle /\ x_again = Idle

NextConstruct == Construct

SpecConstruct == InitConstruct /\ [][NextConstruct]_vars

---------------------------------------------------------------------------
(* Persistence: save(dirname), and reading the saved runs back              *)

RECURSIVE SetToSeq(_)
SetToSeq(S) ==
    IF S = {} THEN <<>>
    ELSE LET m == CHOOSE m \in S : TRUE IN <<m>> \o SetToSeq(S \ {m})

\* the directory entries `root` with `node` put at `path`, whose parent exists
RECURSIVE WriteAt(_, _, _)
WriteAt(root, path, node) ==
    LET put(n) == [m \in DOMAIN root \cup {Head(path)} |-> IF m = Head(path) THEN n ELSE root[m]]
    IN IF Len(path) = 1 THEN put(node)
       ELSE put(Dir(WriteAt(root[Head(path)].of, Tail(path), node)))

\* FileStorageParser._save_config: json.dump of dict(self.cfg_df.loc[eid]);
\* NumpyEncoder turns numpy's scalars into the numbers json writes
SaveConfig(root, eid, dirname) ==
    LET dir  == EidDir(processed_dirname, eid, dirname)
        made == IF IsDir(root, dir) THEN root ELSE WriteAt(root, dir, Dir(NoEntries))
        row  == [i \in DOMAIN SetToSeq(Columns(cfg_df)) |->
                    <<SetToSeq(Columns(cfg_df))[i], cfg_df[eid][SetToSeq(Columns(cfg_df))[i]]>>]
    IN WriteAt(made, Append(dir, s_config_json), File(DictV(row)))

\* FileStorageParser._save_artifact
SaveArtifact(root, name, eid, dirname) ==
    LET val == artifacts[name][eid]
        dir == EidDir(processed_dirname, eid, dirname)
    IN IF val.t = "none" THEN [outcome |-> "ok", root |-> root]
       ELSE IF val.t = "DataFrame"
       THEN [outcome |-> "ok",
             root |-> WriteAt(root, Append(dir, name \o ext_pkl), File(val))]
       ELSE IF val.t = "list"
       THEN [outcome |-> "ok",
             root |-> WriteAt(root, Append(dir, name \o ext_json), File(val))]
       ELSE [outcome |-> "NotImplementedError", root |-> root]

\* the loops of save, from run i and artifact j on; `order` is the order in
\* which self.artifacts yields its names.  What was written before a raise stays.
RECURSIVE SaveFrom(_, _, _, _, _)
SaveFrom(root, dirname, order, i, j) ==
    IF i > Len(eids) THEN [outcome |-> "ok", root |-> root]
    ELSE IF j = 0 THEN SaveFrom(SaveConfig(root, eids[i], dirname), dirname, order, i, 1)
    ELSE IF j > Len(order) THEN SaveFrom(root, dirname, order, i + 1, 0)
    ELSE LET r == SaveArtifact(root, order[j], eids[i], dirname)
         IN IF r.outcome # "ok" THEN r
            ELSE SaveFrom(r.root, dirname, order, i, j + 1)

\* FileStorageParser.save
save(dirname, order) == SaveFrom(fs, dirname, order, 1, 0)

Orders(S) == {o \in [1..Cardinality(S) -> S] : \A i, j \in DOMAIN o : i # j => o[i] # o[j]}

\* parser.save("p")
Save ==
    /\ pc = "ready"
    /\ \E order \in Orders(DOMAIN artifacts) :
          LET r == save(s_p, order)
          IN /\ fs' = r.root
             /\ ret' = [op |-> "save", outcome |-> r.outcome]
             /\ pc' = IF r.outcome = "ok" THEN "saved" ELSE "raised"
    /\ UNCHANGED <<x, x_out, x_again, eids, cfg_df, artifacts, processed_dirname>>

\* parser = FileStorageParser(basedir, processed_dirname="p"), right after the
\* save; ret keeps the parser that was saved
Reload ==
    /\ pc = "saved"
    /\ \E pick \in InitChoices(fs, s_p) :
          LET new == NewParser(fs, s_p, pick)
          IN /\ ret' = [op |-> "reload", outcome |-> new.outcome, at |-> new.at,
                        saved |-> [eids |-> eids, cfg_df |-> cfg_df, artifacts |-> artifacts]]
             /\ pc' = IF new.outcome = "ok" THEN "reloaded" ELSE "failed"
             /\ eids' = new.eids
             /\ cfg_df' = new.cfg_df
             /\ artifacts' = new.artifacts
             /\ processed_dirname' = s_p
    /\ UNCHANGED <<x, x_out, x_again, fs>>

NextSave == Construct \/ AddArtifact \/ AddCfgCol \/ Save \/ Reload

SpecSave == Init /\ [][NextSave]_vars

---------------------------------------------------------------------------
(* The arguments flatten_json is applied to: every dict of at most         *)
(* MaxNodes nodes (a node is a scalar, a dict or a list; the dict itself   *)
(* counts) over the keys FlatKeys and the scalars FlatScalars.             *)

MaxNodes == 4

FlatKeys == {<<"a">>, <<"b">>, <<"a", "_", "_", "b">>}
FlatScalars == {1, 2}

RECURSIVE ValsOfSize(_), ListsOfSize(_), ItemsOfSize(_, _)
ValsOfSize(n) ==
    IF n = 1
    THEN {IntV(s) : s \in FlatScalars} \cup {ListV(<<>>), DictV(<<>>)}
    ELSE {ListV(l) : l \in ListsOfSize(n - 1)}
         \cup {DictV(d) : d \in ItemsOfSize(n - 1, {})}
ListsOfSize(n) ==
    IF n = 0 THEN {<<>>}
    ELSE UNION {{<<v>> \o rest : v \in ValsOfSize(k), rest \in ListsOfSize(n - k)}
                : k \in 1..n}
ItemsOfSize(n, used) ==
    IF n = 0 THEN {<<>>}
    ELSE UNION {{<<<<key, v>>>> \o rest :
                     v \in ValsOfSize(k), rest \in ItemsOfSize(n - k, used \cup {key})}
                : key \in FlatKeys \ used, k \in 1..n}

FlatInputs == UNION {ItemsOfSize(n - 1, {}) : n \in 1..MaxNodes}

InitFlatten ==
    /\ pc = "flatten"
    /\ x \in FlatInputs
    /\ x_out = Idle /\ x_again = Idle
    /\ fs = NoEntries
    /\ eids = <<>> /\ cfg_df = <<>> /\ artifacts = <<>>
    /\ processed_dirname = <<>> /\ ret = [op |-> "none"]

\* x_out = flatten_json(x)
CallFlatten ==
    /\ pc = "flatten"
    /\ x_out' = flatten_json(x)
    /\ pc' = "flattened"
    /\ UNCHANGED <<x, x_again, fs, eids, cfg_df, artifacts, processed_dirname, ret>>

\* x_again = flatten_json(x_out)
CallFlattenAgain ==
    /\ pc = "flattened"
    /\ x_again' = flatten_json(x_out)
    /\ pc' = "flattened twice"
    /\ UNCHANGED <<x, x_out, fs, eids, cfg_df, artifacts, processed_dirname, ret>>

NextFlatten == CallFlatten \/ CallFlattenAgain

SpecFlatten == InitFlatten /\ [][NextFlatten]_vars

---------------------------------------------------------------------------
(* Claims about flatten_json (checked under SpecFlatten) *)

\* a dict as a mapping: Python's == on dicts ignores the order of the items
ItemSet(d) == Range(d)

IsFlat(d) == \A e \in Range(d) : e[2].t \notin {"dict", "list"}

\* the path k1, .., kn written k1__k2__..__kn
Joined(k, k_inner) == k \o <<"_", "_">> \o k_inner

\* the children of a container, each with the last step of its path: a dict
\* key, or a list index as its decimal string
Steps(v) ==
    IF v.t = "dict" THEN {<<c[1], c[2]>> : c \in Range(v.v)}
    ELSE IF v.t = "list" THEN {<<NatToStr(i - 1), v.v[i]>> : i \in DOMAIN v.v}
    ELSE {}

\* the scalar leaves at or below the value v reached by the path joined in k
RECURSIVE LeavesOf(_, _)
LeavesOf(k, v) ==
    IF v.t \in {"dict", "list"}
    THEN UNION {LeavesOf(Joined(k, c[1]), c[2]) : c \in Steps(v)}
    ELSE {<<k, v>>}

RECURSIVE SumOver(_, _)
SumOver(Op(_), S) ==
    IF S = {} THEN 0
    ELSE LET m == CHOOSE m \in S : TRUE IN Op(m) + SumOver(Op, S \ {m})

RECURSIVE LeafCount(_)
LeafCount(v) ==
    IF v.t \in {"dict", "list"}
    THEN SumOver(LAMBDA c : LeafCount(c[2]), Steps(v))
    ELSE 1

\* the joined keys of every node (leaf or container) at or below v
RECURSIVE NodeKeysOf(_, _)
NodeKeysOf(k, v) ==
    {k} \cup UNION {NodeKeysOf(Joined(k, c[1]), c[2]) : c \in Steps(v)}

RECURSIVE NodeCount(_)
NodeCount(v) == 1 + SumOver(LAMBDA c : NodeCount(c[2]), Steps(v))

TopLeaves(d) == UNION {LeavesOf(e[1], e[2]) : e \in Range(d)}

\* no two distinct paths to a scalar leaf give the same flattened key
LeafKeysDistinct(d) ==
    Cardinality({p[1] : p \in TopLeaves(d)})
        = SumOver(LAMBDA e : LeafCount(e[2]), Range(d))

\* no two distinct paths to any node, leaf or container, give the same joined key
NodeKeysDistinct(d) ==
    Cardinality(UNION {NodeKeysOf(e[1], e[2]) : e \in Range(d)})
        = SumOver(LAMBDA e : NodeCount(e[2]), Range(d))

\* the result is flat and holds exactly one entry per scalar leaf of x
OneEntryPerLeaf ==
    /\ IsFlat(x_out)
    /\ Len(x_out) = Cardinality(DictKeys(x_out))
    /\ ItemSet(x_out) = TopLeaves(x)

\* C6 as stated: whenever no two leaf paths of x give the same flattened key,
\* flatten_json(x) is flat and holds exactly the entry k1__k2__..__kn -> leaf
\* for every scalar leaf of x.
C6_LeafPathsOriginal ==
    (pc # "flatten" /\ LeafKeysDistinct(x)) => OneEntryPerLeaf

\* C6 as amended: whenever no two paths of x to any nested value, scalar or
\* container, give the same joined key, flatten_json(x) terminates with a flat
\* mapping that holds exactly the entry k1__k2__..__kn -> leaf for every scalar
\* leaf of x.
C6_NodePathsAmended ==
    (pc # "flatten" /\ NodeKeysDistinct(x)) => OneEntryPerLeaf

\* the spec's list example, {"a": [1, 2]} -> {"a__0": 1, "a__1": 2}, and a
\* dict nested in a dict
C6_Witness ==
    /\ pc = "flattened"
    /\ NodeKeysDistinct(x)
    /\ \/ /\ x = <<<< <<"a">>, ListV(<<IntV(1), IntV(2)>>) >>>>
          /\ x_out = <<<< <<"a", "_", "_", "0">>, IntV(1) >>,
                      << <<"a", "_", "_", "1">>, IntV(2) >>>>
       \/ /\ x = <<<< <<"a">>, DictV(<<<< <<"b">>, DictV(<<<< <<"a">>, IntV(1) >>>>) >>>>) >>>>
          /\ x_out = <<<< <<"a", "_", "_", "b", "_", "_", "a">>, IntV(1) >>>>

\* C7: flatten_json is idempotent: flatten_json(flatten_json(x)) equals
\* flatten_json(x) as a mapping, for every argument x.
C7_Idempotent ==
    pc = "flattened twice" => ItemSet(x_again) = ItemSet(x_out)

\* a second call made on the result of flattening two levels of nesting
C7_Witness ==
    /\ pc = "flattened twice"
    /\ \E e \in Range(x) :
          /\ e[2].t \in {"dict", "list"}
          /\ \E c \in Range(e[2].v) :
                (IF e[2].t = "dict" THEN c[2] ELSE c).t \in {"dict", "list"}
    /\ x_out # x
    /\ x_again = x_out

---------------------------------------------------------------------------
(* Claims about the parser's namespace, injection and selection (checked   *)
(* under Spec)                                                             *)

Constructed == pc \in {"ready", "answered", "raised"}

\* C1: in every state of a constructed parser the config column names and
\* the artifact names are disjoint and neither holds "eid"; a run tree with an
\* artifact stem equal to a normalised column name, or with a config key that
\* normalises to "eid", does not get constructed.
C1_ExclusiveNamespaces ==
    Constructed =>
        /\ Columns(cfg_df) \cap DOMAIN artifacts = {}
        /\ s_eid \notin Columns(cfg_df)
        /\ s_eid \notin DOMAIN artifacts

\* C2: add_artifact(name, f) with name "eid" or name a config column, and
\* add_cfg_col(name, f) with name "eid" or name an artifact name, raise, never
\* call f, and leave the config table and the artifact registry as they were.
C2_RejectedAddChangesNothing ==
    [][ /\ ( /\ pc = "ready"
             /\ ret'.op = "add_artifact"
             /\ (ret'.name = s_eid \/ ret'.name \in Columns(cfg_df)) )
           => ( /\ ret'.outcome = "Exception"
                /\ ret'.calls = 0
                /\ cfg_df' = cfg_df /\ artifacts' = artifacts )
        /\ ( /\ pc = "ready"
             /\ ret'.op = "add_cfg_col"
             /\ (ret'.name = s_eid \/ ret'.name \in DOMAIN artifacts) )
           => ( /\ ret'.outcome = "Exception"
                /\ ret'.calls = 0
                /\ cfg_df' = cfg_df /\ artifacts' = artifacts )
      ]_vars

\* add_artifact was refused the name of a config column, with a callback
\* whose arguments all resolve
C2_Witness ==
    /\ ret.op = "add_artifact"
    /\ ret.name = s_lr /\ s_lr \in Columns(cfg_df)
    /\ ret.f = f_eids
    /\ ret.outcome = "Exception" /\ ret.calls = 0

\* C3: _kwargs(argnames, eid) maps exactly the argument names among "eid", the
\* columns and the artifact names; "eid" to the run id whatever column or
\* artifact has that name, else a column name to the run's value in the column,
\* else an artifact name to the run's artifact value.
C3_KwargsPrecedence ==
    ret.op = "_kwargs" =>
        LET e == ret.eid
            known == {s_eid} \cup Columns(cfg_df) \cup DOMAIN artifacts
        IN /\ DOMAIN ret.value = Range(ret.argnames) \cap known
           /\ \A a \in DOMAIN ret.value :
                 /\ a = s_eid => ret.value[a] = IntV(e)
                 /\ (a # s_eid /\ a \in Columns(cfg_df)) => ret.value[a] = cfg_df[e][a]
                 /\ (a # s_eid /\ a \notin Columns(cfg_df)) => ret.value[a] = artifacts[a][e]

\* a name that is a column and an artifact with different values was resolved
\* beside a name that is unknown
C3_Witness ==
    /\ ret.op = "_kwargs"
    /\ \E a \in Range(ret.argnames) :
          /\ a \in Columns(cfg_df) /\ a \in DOMAIN artifacts
          /\ cfg_df[ret.eid][a] # artifacts[a][ret.eid]
          /\ ret.value[a] = cfg_df[ret.eid][a]
    /\ \E a \in Range(ret.argnames) : a \notin DOMAIN ret.value

\* C8: eid_match(criteria) returns the run ids whose row equals the supplied
\* value on every supplied column, ascending; with no criteria, all run ids.
C8_EidMatchSelects ==
    (ret.op = "eid_match" /\ DOMAIN ret.criteria \subseteq Columns(cfg_df)) =>
        /\ ret.outcome = "ok"
        /\ ret.value =
             [t |-> "Index",
              v |-> SelectSeq(eids, LAMBDA e :
                        \A k \in DOMAIN ret.criteria : cfg_df[e][k] = ret.criteria[k])]

---------------------------------------------------------------------------
(* Claims about construction (checked under SpecConstruct)                 *)

\* the subdirectories of basedir whose name holds a decimal digit
Qualifying == {f \in DOMAIN fs : fs[f].is = "dir" /\ HasDigits(f)}

\* C4: run discovery takes a subdirectory for a run exactly when its name
\* holds a digit sequence, parses a run id from each such name, yields the ids
\* ascending, and fails only when no subdirectory qualifies.
C4_DiscoveryAcceptsDigitNames ==
    ret.op = "__init__" =>
        /\ (ret.at = "self.eids") <=> (Qualifying = {})
        /\ ret.outcome = "ok" =>
              /\ Len(eids) = Cardinality(Qualifying)
              /\ \A i, j \in DOMAIN eids : i < j => eids[i] <= eids[j]

\* C5: when construction succeeds, eids holds every value at most once and
\* every value is a non-negative integer.
C5_EidsUniqueNonNegative ==
    (ret.op = "__init__" /\ ret.outcome = "ok") =>
        /\ \A i, j \in DOMAIN eids : i # j => eids[i] # eids[j]
        /\ \A i \in DOMAIN eids : eids[i] >= 0

\* the files of run e that belong to the artifact named `stem`
OwnFiles(e, stem) ==
    LET dir == EidDir(NoDirname, e, NoDirname)
    IN {f \in ListDir(fs, dir) :
          /\ IsFile(fs, Append(dir, f))
          /\ f \notin ReservedFilenames
          /\ SplitExt(f)[1] = stem}

\* C10: after construction, for every artifact name and run, artifacts[name][run]
\* is None exactly when the run's directory holds no file of that artifact, and
\* is the loaded content of the run's own file when it holds one.
C10_MissingFileIsNoneForThatRunOnly ==
    (ret.op = "__init__" /\ ret.outcome = "ok") =>
        \A name \in DOMAIN artifacts : \A e \in Range(eids) :
            IF OwnFiles(e, name) = {}
            THEN artifacts[name][e] = None
            ELSE \E f \in OwnFiles(e, name) :
                    artifacts[name][e] = Lookup(fs, Append(EidDir(NoDirname, e, NoDirname), f)).of

---------------------------------------------------------------------------
(* Claim about persistence (checked under SpecSave)                        *)

\* C9: from every state of the collection, save(dirname) and then the
\* construction of a parser with processed_dirname = dirname succeed, and the
\* new parser has the same run ids, the same columns and per-run values, and
\* the same artifact names and per-run artifact values.
C9_SaveThenReloadRoundTrips ==
    /\ ret.op = "save" => ret.outcome = "ok"
    /\ ret.op = "reload" =>
          /\ ret.outcome = "ok"
          /\ eids = ret.saved.eids
          /\ cfg_df = ret.saved.cfg_df
          /\ artifacts = ret.saved.artifacts

=============================================================================
